---- MODULE Spec2Model ----
(***************************************************************************)
(* Model of cppimpbot (therocode/CppCompilerCompliance): the feature       *)
(* snapshot type, the report synthesizer (compliance/feature.go), the      *)
(* sqlite history store (compliance/sqliteservice.go) and the two polling  *)
(* loops of the server command (main.go).                                  *)
(*                                                                         *)
(* Strings are TLA+ strings; Len counts bytes as Go's len does (the model  *)
(* only uses ASCII).  A Go pointer is a sequence of length 0 (nil) or 1.   *)
(***************************************************************************)
EXTENDS Integers, Sequences, FiniteSets, Bags, TLC

VARIABLES
    \* the history store and the process (main.go, rootCmdFunc)
    store,      \* table features, in rowid order: a sequence of Feature rows
    now,        \* time.Now(): the last timestamp CreateEntry has handed out
    cfg,        \* the Configuration the process was started with
    fetchPc,    \* web fetcher goroutine: where it stands
    fetchQueue, \* features of the current scrape not yet handled (head: dbFeature)
    fetchRes,   \* locals differs, lastEntry, err of the current iteration
    repPc,      \* tweet reporter goroutine: where it stands
    repQueue,   \* unreportedEntries not yet handled (head: entry)
    repRes,     \* locals previous, twitterReport, err of the current iteration
    tweets,     \* bag of the keys of the entries whose report was tweeted
    dms,        \* bag of the direct messages the maintainer has received
    quitChan,   \* "open" or "closed"
    ctrlCChan,  \* number of signals buffered in ctrlCChan (capacity 1)
    proc,       \* "running", "exited" (rootCmdFunc returned) or "panicked"
    \* application of the pure functions to drawn inputs
    previous,   \* argument: Nil or Ptr(feature)
    next,       \* argument: Nil or Ptr(feature)
    out         \* what the last applied function returned

sysVars == <<store, now, cfg, fetchPc, fetchQueue, fetchRes, repPc, repQueue,
             repRes, tweets, dms, quitChan, ctrlCChan, proc>>

fetchVars == <<fetchPc, fetchQueue, fetchRes>>

repVars == <<repPc, repQueue, repRes>>

sigVars == <<quitChan, ctrlCChan, proc>>

pureVars == <<previous, next, out>>

vars == <<store, now, cfg, fetchPc, fetchQueue, fetchRes, repPc, repQueue,
          repRes, tweets, dms, quitChan, ctrlCChan, proc,
          previous, next, out>>

-----------------------------------------------------------------------------
(* Pointers and sql.NullString *)

Nil == <<>>

Ptr(f) == <<f>>

Deref(p) == p[1]

NullString(s, valid) == [String |-> s, Valid |-> valid]

Null == NullString("", FALSE)

Str(s) == NullString(s, TRUE)

-----------------------------------------------------------------------------
(* compliance/feature.go *)

SupportNo == 0

SupportYes == 1

SupportPartial == 2

TwitterLimit == 280

CppRefLinkSize == Len("https://en.cppreference.com/w/cpp/compiler_support")

TwitterShortUrlSize == Len("https://t.co/iqNEBAK9qG")

TrimLimit == TwitterLimit + (CppRefLinkSize - TwitterShortUrlSize)

Feature(name, timestamp, cppVersion, paperName, paperLink, gcc, clang, msvc, reportedToTwitter, reportedBroken) ==
    [Name |-> name, Timestamp |-> timestamp, CppVersion |-> cppVersion,
     PaperName |-> paperName, PaperLink |-> paperLink,
     GccSupport |-> gcc[1], GccDisplayText |-> gcc[2], GccExtraText |-> gcc[3],
     ClangSupport |-> clang[1], ClangDisplayText |-> clang[2],
     ClangExtraText |-> clang[3],
     MsvcSupport |-> msvc[1], MsvcDisplayText |-> msvc[2],
     MsvcExtraText |-> msvc[3],
     ReportedToTwitter |-> reportedToTwitter, ReportedBroken |-> reportedBroken]

twitterTrimmedKeepsLimit(text) ==
    IF Len(text) > TrimLimit
    THEN SubSeq(text, 1, TrimLimit) \o "..."
    ELSE text

twitterTrimmed(text) ==
    IF Len(text) > TrimLimit
    THEN SubSeq(text, 1, TrimLimit - 3) \o "..."
    ELSE text

fromNullString(text) == IF text.Valid THEN text.String ELSE ""

compilerVersionTextString(displayText, extraText) ==
    IF Len(extraText) > 0
    THEN displayText \o "(" \o extraText \o ")"
    ELSE displayText

(* compilerSupportString showing the version text at the level no too *)
compilerSupportStringTextAtNo(support, displayText, extraText) ==
    IF support = 0
    THEN IF compilerVersionTextString(displayText, extraText) = ""
         THEN "[no]"
         ELSE "[no] " \o compilerVersionTextString(displayText, extraText)
    ELSE IF support = 1
         THEN "[yes] " \o compilerVersionTextString(displayText, extraText)
         ELSE "[partial] " \o compilerVersionTextString(displayText, extraText)

compilerSupportString(support, displayText, extraText) ==
    IF support = 0 THEN "[no]"
    ELSE IF support = 1
         THEN "[yes] " \o compilerVersionTextString(displayText, extraText)
         ELSE "[partial] " \o compilerVersionTextString(displayText, extraText)

isReportTypeNewFeatureAdded(p, n) == p = Nil /\ n # Nil

isReportTypeSupportLevelChangedNoMsvc(p, n) ==
    \/ Deref(p).GccSupport # Deref(n).GccSupport
    \/ Deref(p).ClangSupport # Deref(n).ClangSupport

isReportTypeSupportLevelChanged(p, n) ==
    \/ Deref(p).GccSupport # Deref(n).GccSupport
    \/ Deref(p).ClangSupport # Deref(n).ClangSupport
    \/ Deref(p).MsvcSupport # Deref(n).MsvcSupport

isReportTypeTextChangedNoExtra(p, n) ==
    \/ Deref(p).GccDisplayText # Deref(n).GccDisplayText
    \/ Deref(p).ClangDisplayText # Deref(n).ClangDisplayText
    \/ Deref(p).MsvcDisplayText # Deref(n).MsvcDisplayText

isReportTypeTextChanged(p, n) ==
    \/ Deref(p).GccDisplayText # Deref(n).GccDisplayText
    \/ Deref(p).GccExtraText # Deref(n).GccExtraText
    \/ Deref(p).ClangDisplayText # Deref(n).ClangDisplayText
    \/ Deref(p).ClangExtraText # Deref(n).ClangExtraText
    \/ Deref(p).MsvcDisplayText # Deref(n).MsvcDisplayText
    \/ Deref(p).MsvcExtraText # Deref(n).MsvcExtraText

(* compilerSupportListing listing every vendor, asked for or not *)
compilerSupportListingEveryVendor(feature, listGcc, listClang, listMsvc) ==
    LET f == Deref(feature)
    IN  "GCC - " \o compilerSupportString(f.GccSupport,
                      fromNullString(f.GccDisplayText),
                      fromNullString(f.GccExtraText))
        \o "\nClang - " \o compilerSupportString(f.ClangSupport,
                      fromNullString(f.ClangDisplayText),
                      fromNullString(f.ClangExtraText))
        \o "\nMSVC - " \o compilerSupportString(f.MsvcSupport,
                      fromNullString(f.MsvcDisplayText),
                      fromNullString(f.MsvcExtraText))

compilerSupportListing(feature, listGcc, listClang, listMsvc) ==
    LET f == Deref(feature)
        gccBit == "GCC - " \o compilerSupportString(f.GccSupport,
                      fromNullString(f.GccDisplayText),
                      fromNullString(f.GccExtraText))
        clangBit == "Clang - " \o compilerSupportString(f.ClangSupport,
                      fromNullString(f.ClangDisplayText),
                      fromNullString(f.ClangExtraText))
        msvcBit == "MSVC - " \o compilerSupportString(f.MsvcSupport,
                      fromNullString(f.MsvcDisplayText),
                      fromNullString(f.MsvcExtraText))
        r1 == IF listGcc THEN gccBit ELSE ""
        first1 == ~listGcc
        r2 == IF listClang
              THEN r1 \o (IF ~first1 THEN "\n" ELSE "") \o clangBit
              ELSE r1
        first2 == first1 /\ ~listClang
        r3 == IF listMsvc
              THEN r2 \o (IF ~first2 THEN "\n" ELSE "") \o msvcBit
              ELSE r2
    IN  r3

(* What a call of FeatureToTwitterReport yields: the returned text and     *)
(* whether the returned error is non-nil, and with them the locals of the  *)
(* branch taken: reportText before twitterTrimmed, and listGcc, listClang, *)
(* listMsvc (the changed-set; the new-listing branch lists every vendor).  *)
Report(text, err, reportText, listGcc, listClang, listMsvc) ==
    [text |-> text, err |-> err, reportText |-> reportText,
     listGcc |-> listGcc, listClang |-> listClang, listMsvc |-> listMsvc]

(* the three branches that build a report *)
newListingReportWrongHeader(n) ==
    LET supportListing == compilerSupportListing(n, TRUE, TRUE, TRUE)
        reportText == "[Support Update] C++" \o ToString(Deref(n).CppVersion)
                      \o " - \"" \o Deref(n).Name \o "\".\n\nSupport:\n"
                      \o supportListing
    IN  Report(twitterTrimmed(reportText), FALSE, reportText, TRUE, TRUE, TRUE)

(* newListingReport leaving out the vendors without support *)
newListingReportSupportedOnly(n) ==
    LET supportListing ==
            compilerSupportListing(n, Deref(n).GccSupport # SupportNo,
                                   Deref(n).ClangSupport # SupportNo,
                                   Deref(n).MsvcSupport # SupportNo)
        reportText == "[New Listing] C++" \o ToString(Deref(n).CppVersion)
                      \o " - \"" \o Deref(n).Name \o "\".\n\nSupport:\n"
                      \o supportListing
    IN  Report(twitterTrimmed(reportText), FALSE, reportText, TRUE, TRUE, TRUE)

newListingReport(n) ==
    LET supportListing == compilerSupportListing(n, TRUE, TRUE, TRUE)
        reportText == "[New Listing] C++" \o ToString(Deref(n).CppVersion)
                      \o " - \"" \o Deref(n).Name \o "\".\n\nSupport:\n"
                      \o supportListing
    IN  Report(twitterTrimmed(reportText), FALSE, reportText, TRUE, TRUE, TRUE)

supportUpdateReport(p, n) ==
    LET listGcc == Deref(p).GccSupport # Deref(n).GccSupport
        listClang == Deref(p).ClangSupport # Deref(n).ClangSupport
        listMsvc == Deref(p).MsvcSupport # Deref(n).MsvcSupport
        previousSupportListing ==
            compilerSupportListing(p, listGcc, listClang, listMsvc)
        nextSupportListing ==
            compilerSupportListing(n, listGcc, listClang, listMsvc)
        reportText == "[Support Update] C++" \o ToString(Deref(n).CppVersion)
                      \o " - \"" \o Deref(n).Name \o "\".\n\nFrom:\n"
                      \o previousSupportListing \o "\n\nto:\n"
                      \o nextSupportListing
    IN  Report(twitterTrimmed(reportText), FALSE, reportText,
               listGcc, listClang, listMsvc)

(* textUpdateReport leaving out a vendor whose version text is empty on    *)
(* both sides                                                              *)
textUpdateReportSkipsEmpty(p, n) ==
    LET shown(pd, pe, nd, ne) ==
            ~(/\ compilerVersionTextString(fromNullString(pd),
                                           fromNullString(pe)) = ""
              /\ compilerVersionTextString(fromNullString(nd),
                                           fromNullString(ne)) = "")
        listGcc == /\ \/ Deref(p).GccDisplayText # Deref(n).GccDisplayText
                      \/ Deref(p).GccExtraText # Deref(n).GccExtraText
                   /\ shown(Deref(p).GccDisplayText, Deref(p).GccExtraText,
                            Deref(n).GccDisplayText, Deref(n).GccExtraText)
        listClang == /\ \/ Deref(p).ClangDisplayText # Deref(n).ClangDisplayText
                        \/ Deref(p).ClangExtraText # Deref(n).ClangExtraText
                     /\ shown(Deref(p).ClangDisplayText, Deref(p).ClangExtraText,
                              Deref(n).ClangDisplayText, Deref(n).ClangExtraText)
        listMsvc == /\ \/ Deref(p).MsvcDisplayText # Deref(n).MsvcDisplayText
                       \/ Deref(p).MsvcExtraText # Deref(n).MsvcExtraText
                    /\ shown(Deref(p).MsvcDisplayText, Deref(p).MsvcExtraText,
                             Deref(n).MsvcDisplayText, Deref(n).MsvcExtraText)
        previousSupportListing ==
            compilerSupportListing(p, listGcc, listClang, listMsvc)
        nextSupportListing ==
            compilerSupportListing(n, listGcc, listClang, listMsvc)
        reportText == "[Text Update] C++" \o ToString(Deref(n).CppVersion)
                      \o " - \"" \o Deref(n).Name \o "\".\n\nFrom:\n"
                      \o previousSupportListing \o "\n\nto:\n"
                      \o nextSupportListing
    IN  Report(twitterTrimmed(reportText), FALSE, reportText,
               listGcc, listClang, listMsvc)

(* textUpdateReport with a header that tells one vendor from several *)
textUpdateReportPluralHeader(p, n) ==
    LET listGcc == \/ Deref(p).GccDisplayText # Deref(n).GccDisplayText
                   \/ Deref(p).GccExtraText # Deref(n).GccExtraText
        listClang == \/ Deref(p).ClangDisplayText # Deref(n).ClangDisplayText
                     \/ Deref(p).ClangExtraText # Deref(n).ClangExtraText
        listMsvc == \/ Deref(p).MsvcDisplayText # Deref(n).MsvcDisplayText
                    \/ Deref(p).MsvcExtraText # Deref(n).MsvcExtraText
        previousSupportListing ==
            compilerSupportListing(p, listGcc, listClang, listMsvc)
        nextSupportListing ==
            compilerSupportListing(n, listGcc, listClang, listMsvc)
        several == \/ listGcc /\ listClang
                   \/ listGcc /\ listMsvc
                   \/ listClang /\ listMsvc
        reportText == (IF several THEN "[Text Updates] C++"
                       ELSE "[Text Update] C++")
                      \o ToString(Deref(n).CppVersion)
                      \o " - \"" \o Deref(n).Name \o "\".\n\nFrom:\n"
                      \o previousSupportListing \o "\n\nto:\n"
                      \o nextSupportListing
    IN  Report(twitterTrimmed(reportText), FALSE, reportText,
               listGcc, listClang, listMsvc)

textUpdateReport(p, n) ==
    LET listGcc == \/ Deref(p).GccDisplayText # Deref(n).GccDisplayText
                   \/ Deref(p).GccExtraText # Deref(n).GccExtraText
        listClang == \/ Deref(p).ClangDisplayText # Deref(n).ClangDisplayText
                     \/ Deref(p).ClangExtraText # Deref(n).ClangExtraText
        listMsvc == \/ Deref(p).MsvcDisplayText # Deref(n).MsvcDisplayText
                    \/ Deref(p).MsvcExtraText # Deref(n).MsvcExtraText
        previousSupportListing ==
            compilerSupportListing(p, listGcc, listClang, listMsvc)
        nextSupportListing ==
            compilerSupportListing(n, listGcc, listClang, listMsvc)
        reportText == "[Text Update] C++" \o ToString(Deref(n).CppVersion)
                      \o " - \"" \o Deref(n).Name \o "\".\n\nFrom:\n"
                      \o previousSupportListing \o "\n\nto:\n"
                      \o nextSupportListing
    IN  Report(twitterTrimmed(reportText), FALSE, reportText,
               listGcc, listClang, listMsvc)

cannotHandle == Report("", TRUE, "", FALSE, FALSE, FALSE)

FeatureToTwitterReportPaperIsText(p, n) ==
    IF isReportTypeNewFeatureAdded(p, n) THEN newListingReport(n)
    ELSE IF isReportTypeSupportLevelChanged(p, n) THEN supportUpdateReport(p, n)
    ELSE IF \/ isReportTypeTextChanged(p, n)
            \/ Deref(p).PaperName # Deref(n).PaperName
         THEN textUpdateReport(p, n)
    ELSE cannotHandle

FeatureToTwitterReport(p, n) ==
    IF isReportTypeNewFeatureAdded(p, n) THEN newListingReport(n)
    ELSE IF isReportTypeSupportLevelChanged(p, n) THEN supportUpdateReport(p, n)
    ELSE IF isReportTypeTextChanged(p, n) THEN textUpdateReport(p, n)
    ELSE cannotHandle

-----------------------------------------------------------------------------
(* compliance/sqliteservice.go.  Each method is one transaction; the       *)
(* operators give the result of a transaction that commits.  A failing     *)
(* transaction (Beginx, the statement or Commit returning an error) leaves *)
(* the table as it was and is chosen by the calling action.                *)

meaningfulDifferenceWithTimestamp(a, b) ==
    \/ a.Name # b.Name
    \/ a.Timestamp # b.Timestamp
    \/ a.CppVersion # b.CppVersion
    \/ a.PaperName # b.PaperName
    \/ a.PaperLink # b.PaperLink
    \/ a.GccSupport # b.GccSupport
    \/ a.GccDisplayText # b.GccDisplayText
    \/ a.GccExtraText # b.GccExtraText
    \/ a.ClangSupport # b.ClangSupport
    \/ a.ClangDisplayText # b.ClangDisplayText
    \/ a.ClangExtraText # b.ClangExtraText
    \/ a.MsvcSupport # b.MsvcSupport
    \/ a.MsvcDisplayText # b.MsvcDisplayText
    \/ a.MsvcExtraText # b.MsvcExtraText

meaningfulDifferenceNoPaper(a, b) ==
    \/ a.Name # b.Name
    \/ a.CppVersion # b.CppVersion
    \/ a.GccSupport # b.GccSupport
    \/ a.GccDisplayText # b.GccDisplayText
    \/ a.GccExtraText # b.GccExtraText
    \/ a.ClangSupport # b.ClangSupport
    \/ a.ClangDisplayText # b.ClangDisplayText
    \/ a.ClangExtraText # b.ClangExtraText
    \/ a.MsvcSupport # b.MsvcSupport
    \/ a.MsvcDisplayText # b.MsvcDisplayText
    \/ a.MsvcExtraText # b.MsvcExtraText

meaningfulDifference(a, b) ==
    \/ a.Name # b.Name
    \/ a.CppVersion # b.CppVersion
    \/ a.PaperName # b.PaperName
    \/ a.PaperLink # b.PaperLink
    \/ a.GccSupport # b.GccSupport
    \/ a.GccDisplayText # b.GccDisplayText
    \/ a.GccExtraText # b.GccExtraText
    \/ a.ClangSupport # b.ClangSupport
    \/ a.ClangDisplayText # b.ClangDisplayText
    \/ a.ClangExtraText # b.ClangExtraText
    \/ a.MsvcSupport # b.MsvcSupport
    \/ a.MsvcDisplayText # b.MsvcDisplayText
    \/ a.MsvcExtraText # b.MsvcExtraText

(* ORDER BY timestamp DESC LIMIT 1 over the rows idx of table s.  (name,   *)
(* timestamp) is the primary key, so rows of one name never tie.           *)
LatestOf(s, idx) ==
    CHOOSE i \in idx : \A j \in idx : s[j].Timestamp <= s[i].Timestamp

(* CreateEntry storing the delivery flags the caller passed *)
CreateEntryKeepsFlags(s, feature, t) ==
    Append(s, [feature EXCEPT !.Timestamp = t])

CreateEntry(s, feature, t) ==
    Append(s, [feature EXCEPT !.Timestamp = t,
                              !.ReportedToTwitter = FALSE,
                              !.ReportedBroken = FALSE])

GetLastIfDiffersAnyRow(s, feature) ==
    LET idx == {i \in 1..Len(s) : s[i].Name = feature.Name}
    IN  IF idx = {}
        THEN [differs |-> TRUE, lastEntry |-> Nil]
        ELSE IF \E i \in idx : meaningfulDifference(feature, s[i])
             THEN [differs |-> TRUE,
                   lastEntry |-> Ptr(s[CHOOSE i \in idx :
                                        meaningfulDifference(feature, s[i])])]
             ELSE [differs |-> FALSE, lastEntry |-> Nil]

GetLastIfDiffers(s, feature) ==
    LET idx == {i \in 1..Len(s) : s[i].Name = feature.Name}
    IN  IF idx = {}
        THEN [differs |-> TRUE, lastEntry |-> Nil]
        ELSE IF meaningfulDifference(feature, s[LatestOf(s, idx)])
             THEN [differs |-> TRUE, lastEntry |-> Ptr(s[LatestOf(s, idx)])]
             ELSE [differs |-> FALSE, lastEntry |-> Nil]

(* GetNotTwitterReported without its WHERE clause *)
GetNotTwitterReportedEveryRow(s) == s

GetNotTwitterReported(s) == SelectSeq(s, LAMBDA r : r.ReportedToTwitter = FALSE)

(* GetPreviousFeatureEntry without the bound on the timestamp *)
GetPreviousFeatureEntryLatest(s, feature) ==
    LET idx == {i \in 1..Len(s) : s[i].Name = feature.Name}
    IN  IF idx = {} THEN Nil ELSE Ptr(s[LatestOf(s, idx)])

GetPreviousFeatureEntryOrEqual(s, feature) ==
    LET idx == {i \in 1..Len(s) : /\ s[i].Name = feature.Name
                                  /\ s[i].Timestamp <= feature.Timestamp}
    IN  IF idx = {} THEN Nil ELSE Ptr(s[LatestOf(s, idx)])

GetPreviousFeatureEntry(s, feature) ==
    LET idx == {i \in 1..Len(s) : /\ s[i].Name = feature.Name
                                  /\ s[i].Timestamp < feature.Timestamp}
    IN  IF idx = {} THEN Nil ELSE Ptr(s[LatestOf(s, idx)])

SetTwitterReported(s, feature) ==
    [i \in 1..Len(s) |->
        IF s[i].Name = feature.Name /\ s[i].Timestamp = feature.Timestamp
        THEN [s[i] EXCEPT !.ReportedToTwitter = TRUE]
        ELSE s[i]]

SetErrorReportedBoth(s, feature) ==
    [i \in 1..Len(s) |->
        IF s[i].Name = feature.Name /\ s[i].Timestamp = feature.Timestamp
        THEN [s[i] EXCEPT !.ReportedBroken = TRUE, !.ReportedToTwitter = TRUE]
        ELSE s[i]]

SetErrorReported(s, feature) ==
    [i \in 1..Len(s) |->
        IF s[i].Name = feature.Name /\ s[i].Timestamp = feature.Timestamp
        THEN [s[i] EXCEPT !.ReportedBroken = TRUE]
        ELSE s[i]]

-----------------------------------------------------------------------------
(* Bounds of the model *)

MaxStore == 2       \* rows the table may hold

MaxScrape == 2      \* features one scrape may yield

MaxResend == 2      \* times one report or message may be accepted again

MaxReportsCap == 1  \* the configured SafeModeMaxReports

-----------------------------------------------------------------------------
(* What the producer can yield: scraper.CppFeature values and the          *)
(* conversion to compliance.Feature of main.go, which sets every           *)
(* NullString valid and leaves Timestamp and the flags at their zero value *)

CompilerSupport(support, displayString, extraString) ==
    [Support |-> support, DisplayString |-> displayString,
     ExtraString |-> extraString]

dbFeature(cppVersion, feature) ==
    Feature(feature.Name, 0, cppVersion,
            Str(feature.PaperName), Str(feature.PaperLink),
            <<feature.GccSupport.Support,
              Str(feature.GccSupport.DisplayString),
              Str(feature.GccSupport.ExtraString)>>,
            <<feature.ClangSupport.Support,
              Str(feature.ClangSupport.DisplayString),
              Str(feature.ClangSupport.ExtraString)>>,
            <<feature.MsvcSupport.Support,
              Str(feature.MsvcSupport.DisplayString),
              Str(feature.MsvcSupport.ExtraString)>>,
            FALSE, FALSE)

CppFeature(name, paperName, gcc) ==
    [Name |-> name, PaperName |-> paperName,
     PaperLink |-> "https://wg21.link/" \o paperName,
     GccSupport |-> gcc,
     ClangSupport |-> CompilerSupport(SupportPartial, "6", ""),
     MsvcSupport |-> CompilerSupport(SupportNo, "", "")]

(* The page over time: feature X unsupported by GCC, then supported, then  *)
(* with another version text, or with another paper; and a feature Y.      *)
SiteFeatures ==
    { dbFeature(17, CppFeature("X", "P1", CompilerSupport(SupportNo, "", ""))),
      dbFeature(17, CppFeature("X", "P1",
                               CompilerSupport(SupportYes, "9", "still buggy"))),
      dbFeature(17, CppFeature("X", "P1", CompilerSupport(SupportYes, "9", ""))),
      dbFeature(17, CppFeature("X", "P2", CompilerSupport(SupportNo, "", ""))),
      dbFeature(20, CppFeature("Y", "P3", CompilerSupport(SupportNo, "", ""))) }

(* One scrape: the page's rows in page order.  The page lists a feature   *)
(* once, under the heading of its C++ version, lower versions first.       *)
Scrapes ==
    {s \in UNION {[1..n -> SiteFeatures] : n \in 1..MaxScrape} :
        \A i, j \in 1..Len(s) : i < j => s[i].CppVersion < s[j].CppVersion}

Configurations ==
    [SafeMode : BOOLEAN, SafeModeMaxReports : {MaxReportsCap},
     SupressReporting : BOOLEAN, DryReporting : BOOLEAN]

-----------------------------------------------------------------------------
(* main.go, rootCmdFunc *)

Key(f) == <<f.Name, f.Timestamp>>

NoFetchRes == [differs |-> FALSE, lastEntry |-> Nil, err |-> FALSE]

NoRepRes == [previous |-> Nil, twitterReport |-> "", err |-> FALSE]

NoOut == [fn |-> "none"]

Running == proc = "running"

(* the defaults initConfig sets *)
DefaultConfiguration ==
    [SafeMode |-> TRUE, SafeModeMaxReports |-> 5,
     SupressReporting |-> FALSE, DryReporting |-> TRUE]

(* the process before its goroutines have taken a step *)
InitProcess ==
    /\ fetchPc = "select"
    /\ fetchQueue = <<>>
    /\ fetchRes = NoFetchRes
    /\ repPc = "select"
    /\ repQueue = <<>>
    /\ repRes = NoRepRes
    /\ tweets = EmptyBag
    /\ dms = EmptyBag
    /\ quitChan = "open"
    /\ ctrlCChan = 0
    /\ proc = "running"

(* a fresh database after the migration, and any configuration *)
InitSys ==
    /\ InitProcess
    /\ store = <<>>
    /\ now = 0
    /\ cfg \in Configurations

Init ==
    /\ InitSys
    /\ previous = Nil
    /\ next = Nil
    /\ out = NoOut

(* ---- web fetcher goroutine ---- *)

(* FetchAdvance leaving the for loop instead of going on in it *)
FetchAdvanceLeavesLoop ==
    /\ fetchQueue' = <<>>
    /\ fetchPc' = "select"

(* the for loop over scraped features moves on to the next feature *)
FetchAdvance ==
    /\ fetchQueue' = Tail(fetchQueue)
    /\ fetchPc' = IF Tail(fetchQueue) = <<>> THEN "select" ELSE "get"

(* case <-webFetcherTicker.C: ScrapeCppSupport fails (logged, back to the  *)
(* select) or yields the features of the page.  Pages that would grow the  *)
(* table beyond MaxStore rows are not drawn.                               *)
FetchTick ==
    /\ Running
    /\ fetchPc = "select"
    /\ \/ UNCHANGED fetchVars
       \/ \E scraped \in Scrapes :
            /\ Len(store) + Cardinality({i \in 1..Len(scraped) :
                    GetLastIfDiffers(store, scraped[i]).differs}) <= MaxStore
            /\ fetchQueue' = scraped
            /\ fetchPc' = "get"
            /\ fetchRes' = NoFetchRes
    /\ UNCHANGED <<store, now, cfg, repVars, tweets, dms, sigVars, pureVars>>

(* GetLastIfDiffers for the head feature and the branch on its result *)
FetchGetLastIfDiffers ==
    /\ Running
    /\ fetchPc = "get"
    /\ \/ /\ fetchRes' = [differs |-> FALSE, lastEntry |-> Nil, err |-> TRUE]
          /\ FetchAdvance
       \/ LET r == GetLastIfDiffers(store, Head(fetchQueue))
          IN  /\ fetchRes' = [differs |-> r.differs, lastEntry |-> r.lastEntry,
                              err |-> FALSE]
              /\ IF r.differs
                 THEN fetchPc' = "create" /\ UNCHANGED fetchQueue
                 ELSE FetchAdvance
    /\ UNCHANGED <<store, now, cfg, repVars, tweets, dms, sigVars, pureVars>>

(* CreateEntry for the head feature; its error is only logged *)
FetchCreateEntry ==
    /\ Running
    /\ fetchPc = "create"
    /\ \/ /\ store' = CreateEntry(store, Head(fetchQueue), now + 1)
          /\ now' = now + 1
       \/ UNCHANGED <<store, now>>
    /\ fetchRes' = NoFetchRes
    /\ FetchAdvance
    /\ UNCHANGED <<cfg, repVars, tweets, dms, sigVars, pureVars>>

(* case <-quitChan of the web fetcher *)
FetchQuit ==
    /\ Running
    /\ fetchPc = "select"
    /\ quitChan = "closed"
    /\ fetchPc' = "stopped"
    /\ UNCHANGED <<store, now, cfg, fetchQueue, fetchRes, repVars, tweets, dms,
                   sigVars, pureVars>>

(* ---- tweet reporter goroutine ---- *)

(* the for loop over unreportedEntries moves on to the next entry; after   *)
(* the last one the break leads back to the select                         *)
RepAdvance ==
    /\ repQueue' = Tail(repQueue)
    /\ repPc' = IF Tail(repQueue) = <<>> THEN "select" ELSE "previous"

(* RepTick with the safe mode check firing at the cap already *)
RepTickAtCap ==
    /\ Running
    /\ repPc = "select"
    /\ \/ UNCHANGED repVars
       \/ LET unreportedEntries == GetNotTwitterReported(store)
              amountToReport == Len(unreportedEntries)
          IN  /\ repRes' = NoRepRes
              /\ IF amountToReport >= cfg.SafeModeMaxReports /\ cfg.SafeMode
                 THEN /\ repPc' = "safeModeMessage"
                      /\ repQueue' = unreportedEntries
                 ELSE /\ repQueue' = unreportedEntries
                      /\ repPc' = IF unreportedEntries = <<>>
                                  THEN "select" ELSE "previous"
    /\ UNCHANGED <<store, now, cfg, fetchVars, tweets, dms, sigVars, pureVars>>

(* case <-tweetReporterTicker.C: GetNotTwitterReported fails (continue) or *)
(* yields the unreported entries, which the safe mode check lets through   *)
(* or not                                                                  *)
RepTick ==
    /\ Running
    /\ repPc = "select"
    /\ \/ UNCHANGED repVars
       \/ LET unreportedEntries == GetNotTwitterReported(store)
              amountToReport == Len(unreportedEntries)
          IN  /\ repRes' = NoRepRes
              /\ IF amountToReport > cfg.SafeModeMaxReports /\ cfg.SafeMode
                 THEN /\ repPc' = "safeModeMessage"
                      /\ repQueue' = unreportedEntries
                 ELSE /\ repQueue' = unreportedEntries
                      /\ repPc' = IF unreportedEntries = <<>>
                                  THEN "select" ELSE "previous"
    /\ UNCHANGED <<store, now, cfg, fetchVars, tweets, dms, sigVars, pureVars>>

(* RepSafeModeMessage going on with the next tick instead of returning *)
RepSafeModeMessageNextTick ==
    /\ Running
    /\ repPc = "safeModeMessage"
    /\ \/ dms' = dms (+) SetToBag({<<"safemode", Len(repQueue)>>})
       \/ UNCHANGED dms
    /\ repPc' = "select"
    /\ repQueue' = <<>>
    /\ UNCHANGED <<store, now, cfg, fetchVars, repRes, tweets, sigVars, pureVars>>

(* the direct message about too many reports, sent or not, and the return  *)
(* that ends the goroutine                                                 *)
RepSafeModeMessage ==
    /\ Running
    /\ repPc = "safeModeMessage"
    /\ \/ dms' = dms (+) SetToBag({<<"safemode", Len(repQueue)>>})
       \/ UNCHANGED dms
    /\ repPc' = "returned"
    /\ repQueue' = <<>>
    /\ UNCHANGED <<store, now, cfg, fetchVars, repRes, tweets, sigVars, pureVars>>

(* RepPrevious without the skip of an entry whose error is already         *)
(* reported                                                                *)
RepPreviousNoSkip ==
    /\ Running
    /\ repPc = "previous"
    /\ \/ /\ repRes' = [previous |-> Nil, twitterReport |-> "", err |-> TRUE]
          /\ RepAdvance
       \/ LET entry == Head(repQueue)
              prev == GetPreviousFeatureEntry(store, entry)
              report == FeatureToTwitterReport(prev, Ptr(entry))
          IN  /\ repRes' = [previous |-> prev, twitterReport |-> report.text,
                            err |-> report.err]
              /\ IF report.err
                 THEN repPc' = "errorMessage" /\ UNCHANGED repQueue
                 ELSE IF ~cfg.SupressReporting
                 THEN IF ~cfg.DryReporting /\ report.text # ""
                      THEN repPc' = "tweet" /\ UNCHANGED repQueue
                      ELSE IF ~cfg.DryReporting
                           THEN repPc' = "setReported" /\ UNCHANGED repQueue
                           ELSE RepAdvance
                 ELSE repPc' = "setReported" /\ UNCHANGED repQueue
    /\ UNCHANGED <<store, now, cfg, fetchVars, tweets, dms, sigVars, pureVars>>

(* RepPrevious passing over every entry that cannot be turned into a       *)
(* report, its error reported or not                                       *)
RepPreviousSkipsUnclassified ==
    /\ Running
    /\ repPc = "previous"
    /\ \/ /\ repRes' = [previous |-> Nil, twitterReport |-> "", err |-> TRUE]
          /\ RepAdvance
       \/ LET entry == Head(repQueue)
              prev == GetPreviousFeatureEntry(store, entry)
              report == FeatureToTwitterReport(prev, Ptr(entry))
          IN  /\ repRes' = [previous |-> prev, twitterReport |-> report.text,
                            err |-> report.err]
              /\ IF report.err
                 THEN RepAdvance
                 ELSE IF ~cfg.SupressReporting
                 THEN IF ~cfg.DryReporting /\ report.text # ""
                      THEN repPc' = "tweet" /\ UNCHANGED repQueue
                      ELSE IF ~cfg.DryReporting
                           THEN repPc' = "setReported" /\ UNCHANGED repQueue
                           ELSE RepAdvance
                 ELSE repPc' = "setReported" /\ UNCHANGED repQueue
    /\ UNCHANGED <<store, now, cfg, fetchVars, tweets, dms, sigVars, pureVars>>

(* GetPreviousFeatureEntry and FeatureToTwitterReport for the head entry,  *)
(* and the branches on their results up to the next call that leaves the   *)
(* process                                                                 *)
RepPrevious ==
    /\ Running
    /\ repPc = "previous"
    /\ \/ /\ repRes' = [previous |-> Nil, twitterReport |-> "", err |-> TRUE]
          /\ RepAdvance
       \/ LET entry == Head(repQueue)
              prev == GetPreviousFeatureEntry(store, entry)
              report == FeatureToTwitterReport(prev, Ptr(entry))
          IN  /\ repRes' = [previous |-> prev, twitterReport |-> report.text,
                            err |-> report.err]
              /\ IF report.err
                 THEN IF entry.ReportedBroken
                      THEN RepAdvance
                      ELSE repPc' = "errorMessage" /\ UNCHANGED repQueue
                 ELSE IF ~cfg.SupressReporting
                 THEN IF ~cfg.DryReporting /\ report.text # ""
                      THEN repPc' = "tweet" /\ UNCHANGED repQueue
                      ELSE IF ~cfg.DryReporting
                           THEN repPc' = "setReported" /\ UNCHANGED repQueue
                           ELSE RepAdvance
                 ELSE repPc' = "setReported" /\ UNCHANGED repQueue
    /\ UNCHANGED <<store, now, cfg, fetchVars, tweets, dms, sigVars, pureVars>>

(* RepPreviousAnySynthesizer posting an empty text as well *)
RepPreviousAnySynthesizerPostsEmpty ==
    /\ Running
    /\ repPc = "previous"
    /\ \/ /\ repRes' = [previous |-> Nil, twitterReport |-> "", err |-> TRUE]
          /\ RepAdvance
       \/ LET entry == Head(repQueue)
              prev == GetPreviousFeatureEntry(store, entry)
          IN  \E report \in {FeatureToTwitterReport(prev, Ptr(entry)),
                              Report("", FALSE, "", FALSE, FALSE, FALSE)} :
              /\ repRes' = [previous |-> prev, twitterReport |-> report.text,
                            err |-> report.err]
              /\ IF report.err
                 THEN IF entry.ReportedBroken
                      THEN RepAdvance
                      ELSE repPc' = "errorMessage" /\ UNCHANGED repQueue
                 ELSE IF ~cfg.SupressReporting
                 THEN IF ~cfg.DryReporting
                      THEN repPc' = "tweet" /\ UNCHANGED repQueue
                      ELSE IF ~cfg.DryReporting
                           THEN repPc' = "setReported" /\ UNCHANGED repQueue
                           ELSE RepAdvance
                 ELSE repPc' = "setReported" /\ UNCHANGED repQueue
    /\ UNCHANGED <<store, now, cfg, fetchVars, tweets, dms, sigVars, pureVars>>

(* RepPrevious with a synthesizer that may also choose not to narrate a    *)
(* change: it returns what FeatureToTwitterReport returns, or the empty    *)
(* text and no error                                                       *)
RepPreviousAnySynthesizer ==
    /\ Running
    /\ repPc = "previous"
    /\ \/ /\ repRes' = [previous |-> Nil, twitterReport |-> "", err |-> TRUE]
          /\ RepAdvance
       \/ LET entry == Head(repQueue)
              prev == GetPreviousFeatureEntry(store, entry)
          IN  \E report \in {FeatureToTwitterReport(prev, Ptr(entry)),
                              Report("", FALSE, "", FALSE, FALSE, FALSE)} :
              /\ repRes' = [previous |-> prev, twitterReport |-> report.text,
                            err |-> report.err]
              /\ IF report.err
                 THEN IF entry.ReportedBroken
                      THEN RepAdvance
                      ELSE repPc' = "errorMessage" /\ UNCHANGED repQueue
                 ELSE IF ~cfg.SupressReporting
                 THEN IF ~cfg.DryReporting /\ report.text # ""
                      THEN repPc' = "tweet" /\ UNCHANGED repQueue
                      ELSE IF ~cfg.DryReporting
                           THEN repPc' = "setReported" /\ UNCHANGED repQueue
                           ELSE RepAdvance
                 ELSE repPc' = "setReported" /\ UNCHANGED repQueue
    /\ UNCHANGED <<store, now, cfg, fetchVars, tweets, dms, sigVars, pureVars>>

(* the direct message about an update that cannot be turned into a report  *)
RepErrorMessage ==
    /\ Running
    /\ repPc = "errorMessage"
    /\ \/ /\ CopiesIn(<<"broken", Key(Head(repQueue))>>, dms) < MaxResend
          /\ dms' = dms (+) SetToBag({<<"broken", Key(Head(repQueue))>>})
          /\ repPc' = "setBroken"
          /\ UNCHANGED repQueue
       \/ /\ UNCHANGED dms
          /\ RepAdvance
    /\ UNCHANGED <<store, now, cfg, fetchVars, repRes, tweets, sigVars, pureVars>>

(* SetErrorReported, whose error is dropped *)
RepSetErrorReported ==
    /\ Running
    /\ repPc = "setBroken"
    /\ \/ store' = SetErrorReported(store, Head(repQueue))
       \/ UNCHANGED store
    /\ RepAdvance
    /\ UNCHANGED <<now, cfg, fetchVars, repRes, tweets, dms, sigVars, pureVars>>

(* client.Statuses.Update: the tweet is accepted or not *)
RepTweet ==
    /\ Running
    /\ repPc = "tweet"
    /\ \/ /\ CopiesIn(Key(Head(repQueue)), tweets) < MaxResend
          /\ tweets' = tweets (+) SetToBag({Key(Head(repQueue))})
          /\ repPc' = "setReported"
          /\ UNCHANGED repQueue
       \/ /\ UNCHANGED tweets
          /\ RepAdvance
    /\ UNCHANGED <<store, now, cfg, fetchVars, repRes, dms, sigVars, pureVars>>

(* SetTwitterReported, whose error is dropped *)
RepSetTwitterReported ==
    /\ Running
    /\ repPc = "setReported"
    /\ \/ store' = SetTwitterReported(store, Head(repQueue))
       \/ UNCHANGED store
    /\ RepAdvance
    /\ UNCHANGED <<now, cfg, fetchVars, repRes, tweets, dms, sigVars, pureVars>>

(* case <-quitChan of the tweet reporter *)
RepQuit ==
    /\ Running
    /\ repPc = "select"
    /\ quitChan = "closed"
    /\ repPc' = "stopped"
    /\ UNCHANGED <<store, now, cfg, fetchVars, repQueue, repRes, tweets, dms,
                   sigVars, pureVars>>

(* ---- signals and the end of rootCmdFunc ---- *)

(* an interrupt arrives; signal.Notify drops it when the buffer is full *)
Interrupt ==
    /\ Running
    /\ ctrlCChan' = 1
    /\ UNCHANGED <<store, now, cfg, fetchVars, repVars, tweets, dms, quitChan,
                   proc, pureVars>>

(* the goroutine ranging over ctrlCChan: close(quitChan), which panics on  *)
(* a closed channel                                                        *)
SignalHandler ==
    /\ Running
    /\ ctrlCChan = 1
    /\ ctrlCChan' = 0
    /\ IF quitChan = "closed"
       THEN proc' = "panicked" /\ UNCHANGED quitChan
       ELSE quitChan' = "closed" /\ UNCHANGED proc
    /\ UNCHANGED <<store, now, cfg, fetchVars, repVars, tweets, dms, pureVars>>

(* <-quitChan in rootCmdFunc, and its return, which ends the process *)
MainReturn ==
    /\ Running
    /\ quitChan = "closed"
    /\ proc' = "exited"
    /\ UNCHANGED <<store, now, cfg, fetchVars, repVars, tweets, dms, quitChan,
                   ctrlCChan, pureVars>>

-----------------------------------------------------------------------------
(* The pure functions applied to drawn arguments.  previous is a stored,   *)
(* delivered snapshot (or nil); next is a later snapshot of the same or    *)
(* another feature.                                                        *)

MaxRows == 3        \* rows of a drawn table

LongNameLen == 236  \* length of the long feature name

RECURSIVE Pad(_)
Pad(n) ==
    IF n = 0 THEN ""
    ELSE IF n = 1 THEN "x"
    ELSE Pad(n \div 2) \o Pad(n - (n \div 2))

(* (support, displayText, extraText) of one vendor *)
RecordNo == <<SupportNo, Str(""), Str("")>>

RecordNull == <<SupportNo, Null, Null>>

RecordYes == <<SupportYes, Str("9"), Str("")>>

RecordPartial == <<SupportPartial, Str("9"), Str("")>>

RecordYesLater == <<SupportYes, Str("10"), Str("")>>

RecordYesBuggy == <<SupportYes, Str("9"), Str("still buggy")>>

(* no support, yet with a version text and a clarification *)
RecordNoText == <<SupportNo, Str("9"), Str("planned")>>

GccRecords ==
    {RecordNo, RecordNull, RecordYes, RecordPartial, RecordYesLater,
     RecordYesBuggy, RecordNoText}

VendorRecords ==
    {RecordNo, RecordYes, RecordPartial, RecordYesLater, RecordYesBuggy}

PreviousArgs ==
    {Nil} \cup
    {Ptr(Feature("X", 1, 17, Str("P1"), Str("L1"), g, c, m, TRUE, FALSE)) :
        g \in GccRecords, c \in {RecordNo, RecordYes}, m \in {RecordNo, RecordYes}}

(* (name, specVersion, paper name, paper link) of next *)
NextHeads ==
    { <<"X", 17, "P1", "L1">>, <<"X", 17, "P2", "L1">>, <<"X", 17, "P1", "L2">>,
      <<"X", 20, "P1", "L1">>, <<Pad(LongNameLen), 17, "P1", "L1">> }

NextArgs ==
    {Ptr(Feature(h[1], 2, h[2], Str(h[3]), Str(h[4]), g, c, m, FALSE, FALSE)) :
        h \in NextHeads, g \in GccRecords, c \in VendorRecords,
        m \in VendorRecords}

InitReport ==
    /\ InitProcess
    /\ store = <<>>
    /\ now = 0
    /\ cfg = DefaultConfiguration
    /\ previous \in PreviousArgs
    /\ next \in NextArgs
    /\ out = NoOut

ApplyFeatureToTwitterReport ==
    /\ out = NoOut
    /\ out' = [fn |-> "FeatureToTwitterReport",
               report |-> FeatureToTwitterReport(previous, next)]
    /\ UNCHANGED <<sysVars, previous, next>>

(* as GetLastIfDiffers calls it: the candidate first, the stored row second *)
ApplyMeaningfulDifference ==
    /\ out = NoOut
    /\ previous # Nil
    /\ out' = [fn |-> "meaningfulDifference",
               result |-> meaningfulDifference(Deref(next), Deref(previous))]
    /\ UNCHANGED <<sysVars, previous, next>>

NextReport ==
    \/ ApplyFeatureToTwitterReport
    \/ ApplyMeaningfulDifference

SpecReport == InitReport /\ [][NextReport]_vars

-----------------------------------------------------------------------------
(* The queries of the store applied to drawn tables.  A table is what      *)
(* ingestion leaves behind before any report: rows of scraped features     *)
(* with increasing timestamps, each different from the row of the same     *)
(* name before it.                                                         *)

RowsBefore(h, i) == {j \in 1..(i - 1) : h[j].Name = h[i].Name}

Histories ==
    {h \in UNION {[1..n -> SiteFeatures] : n \in 0..MaxRows} :
        \A i \in 1..Len(h) :
            \/ RowsBefore(h, i) = {}
            \/ LET j == CHOOSE j \in RowsBefore(h, i) :
                            \A k \in RowsBefore(h, i) : k <= j
               IN  h[i] # h[j]}

Tables == {[i \in 1..Len(h) |-> [h[i] EXCEPT !.Timestamp = i]] : h \in Histories}

InitStore ==
    /\ InitProcess
    /\ store \in Tables
    /\ now = Len(store)
    /\ cfg = DefaultConfiguration
    /\ previous = Nil
    /\ next \in {Ptr(f) : f \in SiteFeatures}
                \cup {Ptr(store[i]) : i \in 1..Len(store)}
    /\ out = NoOut

(* as the web fetcher calls it: with a scraped feature *)
ApplyGetLastIfDiffers ==
    /\ out = NoOut
    /\ Deref(next) \in SiteFeatures
    /\ out' = [fn |-> "GetLastIfDiffers",
               result |-> GetLastIfDiffers(store, Deref(next))]
    /\ UNCHANGED <<sysVars, previous, next>>

(* as the tweet reporter calls it: with a stored entry *)
ApplyGetPreviousFeatureEntry ==
    /\ out = NoOut
    /\ Deref(next) \notin SiteFeatures
    /\ out' = [fn |-> "GetPreviousFeatureEntry",
               result |-> GetPreviousFeatureEntry(store, Deref(next))]
    /\ UNCHANGED <<sysVars, previous, next>>

NextStore ==
    \/ ApplyGetLastIfDiffers
    \/ ApplyGetPreviousFeatureEntry

SpecStore == InitStore /\ [][NextStore]_vars

(* The tweet reporter alone, started on a table that ingestion has left    *)
(* behind and that no tick has looked at yet.                              *)
InitNotify ==
    /\ InitProcess
    /\ store \in Tables
    /\ now = Len(store)
    /\ cfg \in Configurations
    /\ previous = Nil
    /\ next = Nil
    /\ out = NoOut

NextNotify ==
    \/ RepTick
    \/ RepSafeModeMessage
    \/ RepPrevious
    \/ RepErrorMessage
    \/ RepSetErrorReported
    \/ RepTweet
    \/ RepSetTwitterReported

SpecNotify == InitNotify /\ [][NextNotify]_vars

(* The tweet reporter with any synthesizer, on the same tables *)
NextDelivery ==
    \/ RepTick
    \/ RepSafeModeMessage
    \/ RepPreviousAnySynthesizer
    \/ RepErrorMessage
    \/ RepSetErrorReported
    \/ RepTweet
    \/ RepSetTwitterReported

SpecDelivery == InitNotify /\ [][NextDelivery]_vars

(* The two loops while no interrupt arrives *)
Next ==
    \/ FetchTick
    \/ FetchGetLastIfDiffers
    \/ FetchCreateEntry
    \/ RepTick
    \/ RepSafeModeMessage
    \/ RepPrevious
    \/ RepErrorMessage
    \/ RepSetErrorReported
    \/ RepTweet
    \/ RepSetTwitterReported

Spec == Init /\ [][Next]_vars

(* The two loops with interrupts and the end of the process *)
NextQuit ==
    \/ FetchTick
    \/ FetchGetLastIfDiffers
    \/ FetchCreateEntry
    \/ FetchQuit
    \/ RepTick
    \/ RepSafeModeMessage
    \/ RepPrevious
    \/ RepErrorMessage
    \/ RepSetErrorReported
    \/ RepTweet
    \/ RepSetTwitterReported
    \/ RepQuit
    \/ Interrupt
    \/ SignalHandler
    \/ MainReturn

SpecQuit == Init /\ [][NextQuit]_vars

(* The tweet reporter with safe mode on, started on a table whose first k  *)
(* rows earlier ticks have dealt with (delivered, or their error reported) *)
(* and whose other rows ingestion has appended since.                      *)
SettledUpTo(t, k) ==
    [i \in 1..Len(t) |->
        IF i > k THEN t[i]
        ELSE IF FeatureToTwitterReport(GetPreviousFeatureEntry(t, t[i]),
                                       Ptr(t[i])).err
             THEN [t[i] EXCEPT !.ReportedBroken = TRUE]
             ELSE [t[i] EXCEPT !.ReportedToTwitter = TRUE]]

ResumedTables == {SettledUpTo(t, k) : t \in Tables, k \in 0..MaxRows}

SafeModeOn ==
    [SafeMode : {TRUE}, SafeModeMaxReports : {MaxReportsCap},
     SupressReporting : BOOLEAN, DryReporting : BOOLEAN]

InitResume ==
    /\ InitProcess
    /\ store \in ResumedTables
    /\ now = Len(store)
    /\ cfg \in SafeModeOn
    /\ previous = Nil
    /\ next = Nil
    /\ out = NoOut

SpecResume == InitResume /\ [][NextNotify]_vars

(* The web fetcher alone on a fresh database, the store not failing and    *)
(* the page not changing: every tick scrapes the same rows.  The scraper   *)
(* takes the rows of the page as they come, heading after heading; nothing *)
(* keeps a name from standing in two rows.                                 *)
MaxTicks == 2       \* ticks of the web fetcher

Pages ==
    {s \in UNION {[1..n -> SiteFeatures] : n \in 1..MaxScrape} :
        \A i, j \in 1..Len(s) : i < j => s[i].CppVersion <= s[j].CppVersion}

InitIngest ==
    /\ InitProcess
    /\ store = <<>>
    /\ now = 0
    /\ cfg = DefaultConfiguration
    /\ previous = Nil
    /\ next = Nil
    /\ \E scraped \in Pages :
            out = [fn |-> "ScrapeCppSupport", scraped |-> scraped, ticks |-> 0]

(* case <-webFetcherTicker.C with ScrapeCppSupport returning the page *)
IngestTick ==
    /\ Running
    /\ fetchPc = "select"
    /\ out.ticks < MaxTicks
    /\ fetchQueue' = out.scraped
    /\ fetchPc' = "get"
    /\ fetchRes' = NoFetchRes
    /\ out' = [out EXCEPT !.ticks = @ + 1]
    /\ UNCHANGED <<store, now, cfg, repVars, tweets, dms, sigVars, previous, next>>

IngestGetLastIfDiffers == FetchGetLastIfDiffers /\ ~fetchRes'.err

IngestCreateEntry == FetchCreateEntry /\ store' # store

NextIngest ==
    \/ IngestTick
    \/ IngestGetLastIfDiffers
    \/ IngestCreateEntry

SpecIngest == InitIngest /\ [][NextIngest]_vars

(* The two loops with safe mode on and a cap of no report at all or of     *)
(* MaxReportsCap reports                                                   *)
SafeModeConfigurations ==
    [SafeMode : {TRUE}, SafeModeMaxReports : {0, MaxReportsCap},
     SupressReporting : BOOLEAN, DryReporting : BOOLEAN]

InitSafeMode ==
    /\ InitProcess
    /\ store = <<>>
    /\ now = 0
    /\ cfg \in SafeModeConfigurations
    /\ previous = Nil
    /\ next = Nil
    /\ out = NoOut

SpecSafeMode == InitSafeMode /\ [][Next]_vars

(* The tweet reporter with channels that recover: DryReporting off, and    *)
(* SetTwitterReported and SetErrorReported not failing for a record when   *)
(* the sink would take no further tweet or message about it.  Ticks keep   *)
(* coming (the ticker), and from some time on no call fails.               *)
LiveConfigurations ==
    [SafeMode : BOOLEAN, SafeModeMaxReports : {MaxReportsCap},
     SupressReporting : BOOLEAN, DryReporting : {FALSE}]

InitLive ==
    /\ InitProcess
    /\ store \in Tables
    /\ now = Len(store)
    /\ cfg \in LiveConfigurations
    /\ previous = Nil
    /\ next = Nil
    /\ out = NoOut

RepSetErrorReportedRecovering ==
    /\ RepSetErrorReported
    /\ CopiesIn(<<"broken", Key(Head(repQueue))>>, dms) >= MaxResend =>
            store' # store

RepSetTwitterReportedRecovering ==
    /\ RepSetTwitterReported
    /\ CopiesIn(Key(Head(repQueue)), tweets) >= MaxResend => store' # store

NextLive ==
    \/ RepTick
    \/ RepSafeModeMessage
    \/ RepPrevious
    \/ RepErrorMessage
    \/ RepSetErrorReportedRecovering
    \/ RepTweet
    \/ RepSetTwitterReportedRecovering

(* a call of the store or of the Twitter client that returns an error *)
CallFailed ==
    \/ repPc = "previous" /\ repVars' # repVars
            /\ repRes'.err /\ repRes'.previous = Nil
    \/ repPc = "errorMessage" /\ repVars' # repVars /\ dms' = dms
    \/ repPc = "setBroken" /\ repVars' # repVars /\ store' = store
    \/ repPc = "tweet" /\ repVars' # repVars /\ tweets' = tweets
    \/ repPc = "setReported" /\ repVars' # repVars /\ store' = store

SpecLive ==
    /\ InitLive
    /\ [][NextLive]_vars
    /\ WF_vars(NextLive)
    /\ <>[][~CallFailed]_vars

-----------------------------------------------------------------------------
(* Properties of FeatureToTwitterReport and meaningfulDifference, checked  *)
(* under SpecReport                                                        *)

Vendors == {"GCC", "Clang", "MSVC"}

SupportOf(f, v) ==
    CASE v = "GCC" -> f.GccSupport
      [] v = "Clang" -> f.ClangSupport
      [] v = "MSVC" -> f.MsvcSupport

DisplayTextOf(f, v) ==
    CASE v = "GCC" -> f.GccDisplayText
      [] v = "Clang" -> f.ClangDisplayText
      [] v = "MSVC" -> f.MsvcDisplayText

ExtraTextOf(f, v) ==
    CASE v = "GCC" -> f.GccExtraText
      [] v = "Clang" -> f.ClangExtraText
      [] v = "MSVC" -> f.MsvcExtraText

HasPrefix(s, prefix) ==
    Len(s) >= Len(prefix) /\ SubSeq(s, 1, Len(prefix)) = prefix

(* vendors whose supportLevel differs between the two arguments *)
SupportChanged ==
    {v \in Vendors : SupportOf(Deref(previous), v) # SupportOf(Deref(next), v)}

(* vendors whose displayText or extraText differs between the arguments *)
TextChanged ==
    {v \in Vendors :
        \/ DisplayTextOf(Deref(previous), v) # DisplayTextOf(Deref(next), v)
        \/ ExtraTextOf(Deref(previous), v) # ExtraTextOf(Deref(next), v)}

(* the changed-set the call worked with *)
Listed(report) ==
    {v \in Vendors : \/ v = "GCC" /\ report.listGcc
                     \/ v = "Clang" /\ report.listClang
                     \/ v = "MSVC" /\ report.listMsvc}

Reported == out.fn = "FeatureToTwitterReport"

(* C1: with previous = nil, FeatureToTwitterReport returns the             *)
(* "[New Listing]" report and a nil error, whatever next holds.            *)
C1_NoPreviousIsNewListing ==
    (Reported /\ previous = Nil) =>
        /\ ~out.report.err
        /\ HasPrefix(out.report.text, "[New Listing]")

C1_Witness ==
    /\ Reported
    /\ previous = Nil
    /\ Deref(next).GccSupport = SupportYes
    /\ Deref(next).ClangSupport = SupportPartial
    /\ HasPrefix(out.report.text, "[New Listing]")

(* C2: with a previous snapshot and at least one vendor's supportLevel     *)
(* differing, the report is the "[Support Update]" one (also when texts    *)
(* differ too) and the changed-set is exactly the vendors whose            *)
(* supportLevel differs; one differing vendor gives a changed-set of one.  *)
C2_SupportLevelChanged ==
    (Reported /\ previous # Nil /\ SupportChanged # {}) =>
        /\ ~out.report.err
        /\ HasPrefix(out.report.text, "[Support Update]")
        /\ Listed(out.report) = SupportChanged
        /\ Cardinality(SupportChanged) = 1 =>
               Cardinality(Listed(out.report)) = 1

C2_Witness ==
    /\ Reported
    /\ previous # Nil
    /\ SupportChanged = {"MSVC"}
    /\ TextChanged = {"GCC", "MSVC"}
    /\ Listed(out.report) = {"MSVC"}
    /\ HasPrefix(out.report.text, "[Support Update]")

(* C3: with a previous snapshot, no supportLevel differing and some        *)
(* vendor's displayText or extraText differing, the report is the          *)
(* "[Text Update]" one with a nil error.                                   *)
C3_TextChanged ==
    (Reported /\ previous # Nil /\ SupportChanged = {} /\ TextChanged # {}) =>
        /\ ~out.report.err
        /\ HasPrefix(out.report.text, "[Text Update]")

C3_Witness ==
    /\ Reported
    /\ previous # Nil
    /\ SupportChanged = {}
    /\ TextChanged = {"Clang"}
    /\ Deref(previous).ClangExtraText # Deref(next).ClangExtraText
    /\ Deref(previous).ClangDisplayText = Deref(next).ClangDisplayText
    /\ HasPrefix(out.report.text, "[Text Update]")

(* C4: FeatureToTwitterReport returns an error exactly when previous is    *)
(* not nil and the nine support, display and extra fields are equal (also  *)
(* when the paper or the spec version changed), and then the text is "".   *)
C4_UnclassifiedIsTheOnlyError ==
    Reported =>
        /\ out.report.err <=>
               (previous # Nil /\ SupportChanged = {} /\ TextChanged = {})
        /\ out.report.err => out.report.text = ""

C4_Witness ==
    /\ Reported
    /\ previous # Nil
    /\ Deref(previous).PaperName # Deref(next).PaperName
    /\ out.report.err
    /\ out.report.text = ""

(* C5: the returned text is never longer than TrimLimit = 307; a           *)
(* reportText longer than TrimLimit comes back as its first TrimLimit - 3  *)
(* characters and "...", of length TrimLimit; any other comes back as is.  *)
C5_LengthBudget ==
    Reported =>
        /\ TrimLimit = 307
        /\ Len(out.report.text) <= TrimLimit
        /\ Len(out.report.reportText) > TrimLimit =>
               /\ out.report.text =
                      SubSeq(out.report.reportText, 1, TrimLimit - 3) \o "..."
               /\ Len(out.report.text) = TrimLimit
        /\ Len(out.report.reportText) <= TrimLimit =>
               out.report.text = out.report.reportText

C5_Witness ==
    /\ Reported
    /\ HasPrefix(out.report.text, "[Text Update]")
    /\ Len(out.report.reportText) > TrimLimit
    /\ Len(out.report.text) = TrimLimit

(* the fields meaningfulDifference is to look at *)
MeaningfulFields ==
    {"Name", "CppVersion", "PaperName", "PaperLink",
     "GccSupport", "GccDisplayText", "GccExtraText",
     "ClangSupport", "ClangDisplayText", "ClangExtraText",
     "MsvcSupport", "MsvcDisplayText", "MsvcExtraText"}

DiffersOn(a, b, fields) == \E f \in fields : a[f] # b[f]

(* C6: meaningfulDifference is true exactly when name, spec version,       *)
(* paper name, paper link or one of the nine vendor fields differs; the    *)
(* timestamp and the delivery flags do not count.                          *)
C6_MeaningfulDifference ==
    out.fn = "meaningfulDifference" =>
        out.result = DiffersOn(Deref(next), Deref(previous), MeaningfulFields)

C6_Witness ==
    /\ out.fn = "meaningfulDifference"
    /\ Deref(next).Timestamp # Deref(previous).Timestamp
    /\ Deref(next).ReportedToTwitter # Deref(previous).ReportedToTwitter
    /\ out.result = FALSE

-----------------------------------------------------------------------------
(* Properties of the store's queries, checked under SpecStore *)

Rows(s) == {s[i] : i \in 1..Len(s)}

SameName(s, f) == {r \in Rows(s) : r.Name = f.Name}

(* the rows of set rows that no row of rows is younger than *)
MostRecent(rows) == {r \in rows : \A q \in rows : q.Timestamp <= r.Timestamp}

(* C7: GetLastIfDiffers compares the candidate with the most recent stored *)
(* snapshot of its name only: (true, nil) when there is none, (true, that  *)
(* snapshot) when it differs meaningfully from the candidate, (false, nil) *)
(* otherwise; and the table is left as it was.                             *)
C7_GetLastIfDiffersResult ==
    out.fn = "GetLastIfDiffers" =>
        LET candidate == Deref(next)
            last == MostRecent(SameName(store, candidate))
        IN  /\ Cardinality(last) <= 1
            /\ last = {} =>
                   out.result = [differs |-> TRUE, lastEntry |-> Nil]
            /\ \A r \in last :
                   IF DiffersOn(r, candidate, MeaningfulFields)
                   THEN out.result = [differs |-> TRUE, lastEntry |-> Ptr(r)]
                   ELSE out.result = [differs |-> FALSE, lastEntry |-> Nil]

C7_GetLastIfDiffers ==
    /\ []C7_GetLastIfDiffersResult
    /\ [][out'.fn = "GetLastIfDiffers" => store' = store]_vars

C7_Witness ==
    /\ out.fn = "GetLastIfDiffers"
    /\ Cardinality(SameName(store, Deref(next))) = 2
    /\ \E r \in SameName(store, Deref(next)) :
           ~DiffersOn(r, Deref(next), MeaningfulFields)
    /\ out.result.differs
    /\ out.result.lastEntry # Nil

(* C8: GetPreviousFeatureEntry returns the stored snapshot of the same     *)
(* name with the greatest timestamp strictly below the entry's, and nil    *)
(* when there is none; never the entry itself, never another name's.       *)
C8_GetPreviousFeatureEntry ==
    out.fn = "GetPreviousFeatureEntry" =>
        LET entry == Deref(next)
            earlier == {r \in SameName(store, entry) :
                           r.Timestamp < entry.Timestamp}
        IN  /\ earlier = {} => out.result = Nil
            /\ earlier # {} =>
                   /\ out.result # Nil
                   /\ Deref(out.result) \in MostRecent(earlier)
            /\ out.result # Nil =>
                   /\ Deref(out.result) # entry
                   /\ Deref(out.result).Name = entry.Name

C8_Witness ==
    /\ out.fn = "GetPreviousFeatureEntry"
    /\ Cardinality(SameName(store, Deref(next))) = 3
    /\ Deref(next).Timestamp = 3
    /\ out.result # Nil
    /\ Deref(out.result).Timestamp = 2

-----------------------------------------------------------------------------
(* Properties of the two loops, checked under Spec *)

(* C9: a stored snapshot's delivery flags only get set: a set flag is      *)
(* never cleared, rows are never removed, and no row ever carries both     *)
(* reported_to_twitter and reported_broken.                                *)
C9_NeverBothFlags ==
    \A r \in Rows(store) : ~(r.ReportedToTwitter /\ r.ReportedBroken)

C9_FlagsOnlyGetSet ==
    \A i \in 1..Len(store) :
        /\ i <= Len(store')
        /\ Key(store'[i]) = Key(store[i])
        /\ store[i].ReportedToTwitter => store'[i].ReportedToTwitter
        /\ store[i].ReportedBroken => store'[i].ReportedBroken

C9_DeliveryStateForward ==
    /\ []C9_NeverBothFlags
    /\ [][C9_FlagsOnlyGetSet]_vars

C9_Witness ==
    /\ \E r \in Rows(store) : r.ReportedToTwitter /\ ~r.ReportedBroken
    /\ \E r \in Rows(store) : r.ReportedBroken /\ ~r.ReportedToTwitter

(* whether table s holds no snapshot of f's name, or its most recent one   *)
(* differs meaningfully from f                                             *)
WorthStoring(s, f) ==
    \/ SameName(s, f) = {}
    \/ \E r \in MostRecent(SameName(s, f)) : DiffersOn(r, f, MeaningfulFields)

EachRowDiffersFromItsPredecessor ==
    \A r \in Rows(store) :
        \A q \in MostRecent({e \in SameName(store, r) :
                                e.Timestamp < r.Timestamp}) :
            DiffersOn(r, q, MeaningfulFields)

(* a step of the web fetcher that is its call of GetLastIfDiffers *)
FetcherCompared == fetchPc = "get" /\ fetchVars' # fetchVars

(* a step that appends a row *)
Appended == Len(store') > Len(store)

(* a step with which the web fetcher is done with the head feature *)
FetcherDoneWithFeature ==
    fetchPc \in {"get", "create"} /\ fetchQueue' = Tail(fetchQueue)

(* C10 as stated: whenever the web fetcher is done with a scraped feature, *)
(* it has appended a snapshot of it if and only if no snapshot of that     *)
(* name is stored or the most recent one differs meaningfully from it.     *)
C10_AppendsIffDiffers ==
    [][FetcherDoneWithFeature =>
        (Appended <=> WorthStoring(store, Head(fetchQueue)))]_vars

(* C10 amended: the web fetcher appends a snapshot of a scraped feature    *)
(* only when no snapshot of that name is stored or the most recent one     *)
(* differs meaningfully from it, and then it does so unless                *)
(* GetLastIfDiffers or CreateEntry fails, in which case nothing is         *)
(* appended; every stored snapshot differs meaningfully from its           *)
(* predecessor of the same name.                                           *)
C10_AppendOnlyWhatDiffers ==
    /\ []EachRowDiffersFromItsPredecessor
    /\ [][Appended =>
            /\ fetchPc = "create"
            /\ WorthStoring(store, Head(fetchQueue))
            /\ Len(store') = Len(store) + 1
            /\ SubSeq(store', 1, Len(store)) = store
            /\ ~DiffersOn(store'[Len(store')], Head(fetchQueue),
                          MeaningfulFields)]_vars
    /\ [][(FetcherCompared /\ ~fetchRes'.err) =>
            (fetchPc' = "create" <=> WorthStoring(store, Head(fetchQueue)))]_vars
    /\ [][(fetchPc = "create" /\ fetchVars' # fetchVars) =>
            (Appended \/ store' = store)]_vars

C10_Witness ==
    /\ Len(store) = 2
    /\ store[1].Name = store[2].Name
    /\ store[1].PaperName # store[2].PaperName
    /\ fetchPc = "get"
    /\ ~WorthStoring(store, Head(fetchQueue))

-----------------------------------------------------------------------------
(* Properties of the tweet reporter, checked under SpecNotify *)

VendorFields ==
    {"GccSupport", "GccDisplayText", "GccExtraText",
     "ClangSupport", "ClangDisplayText", "ClangExtraText",
     "MsvcSupport", "MsvcDisplayText", "MsvcExtraText"}

(* the stored snapshot of r's name just before r, if any *)
Predecessor(s, r) ==
    MostRecent({e \in SameName(s, r) : e.Timestamp < r.Timestamp})

(* r is a change the classifier has no category for *)
Unclassified(s, r) ==
    \E q \in Predecessor(s, r) : ~DiffersOn(r, q, VendorFields)

BrokenMessage(r) == <<"broken", Key(r)>>

(* the stored row the queued entry e was read from *)
StoredRow(s, e) == CHOOSE r \in Rows(s) : Key(r) = Key(e)

(* a step of the tweet reporter at position pc of its loop *)
ReporterStepAt(pc) == repPc = pc /\ repVars' # repVars

(* the for loop goes on with the entry after the head *)
MovedOn ==
    /\ repQueue' = Tail(repQueue)
    /\ repPc' = IF Tail(repQueue) = <<>> THEN "select" ELSE "previous"

C11_UnclassifiedNeverDelivered ==
    \A r \in Rows(store) :
        /\ Unclassified(store, r) =>
                ~r.ReportedToTwitter /\ CopiesIn(Key(r), tweets) = 0
        /\ CopiesIn(BrokenMessage(r), dms) > 0 => Unclassified(store, r)
        /\ r.ReportedBroken => CopiesIn(BrokenMessage(r), dms) > 0

Undelivered(s) == SelectSeq(s, LAMBDA r : ~r.ReportedToTwitter)

OverTheCap == cfg.SafeMode /\ Len(Undelivered(store)) > cfg.SafeModeMaxReports

InRecordLoop ==
    repPc \in {"previous", "errorMessage", "setBroken", "tweet", "setReported"}

(* C12: a tick that finds more undelivered records than SafeModeMaxReports *)
(* while safe mode is on goes for the message to the maintainer, delivers  *)
(* nothing and marks nothing (and ends the tweet reporter); any other tick *)
(* takes all undelivered records and visits them one after the other.      *)
C12_SafeModeCap ==
    /\ [][ReporterStepAt("select") =>
            /\ store' = store /\ tweets' = tweets /\ dms' = dms
            /\ IF OverTheCap
               THEN repPc' = "safeModeMessage"
               ELSE /\ repQueue' = Undelivered(store)
                    /\ repPc' = IF Undelivered(store) = <<>>
                                THEN "select" ELSE "previous"]_vars
    /\ [][ReporterStepAt("safeModeMessage") =>
            /\ store' = store /\ tweets' = tweets
            /\ repPc' = "returned"
            /\ \/ dms' = dms
               \/ dms' = dms (+) SetToBag({<<"safemode",
                                             Len(Undelivered(store))>>})]_vars
    /\ [][repPc = "returned" =>
            store' = store /\ tweets' = tweets /\ dms' = dms
            /\ repPc' = "returned"]_vars
    /\ [](InRecordLoop => repQueue # <<>>)
    /\ [][(InRecordLoop /\ repQueue' # repQueue) => MovedOn]_vars

C12_Witness ==
    /\ repPc = "returned"
    /\ OverTheCap
    /\ Len(Undelivered(store)) = Len(store)
    /\ tweets = EmptyBag
    /\ BagToSet(dms) = {<<"safemode", Len(store)>>}

-----------------------------------------------------------------------------
(* Failing collaborators, checked under Spec *)

GetLastIfDiffersFailed ==
    fetchPc = "get" /\ fetchVars' # fetchVars /\ fetchRes'.err

CreateEntryFailed ==
    fetchPc = "create" /\ fetchVars' # fetchVars /\ ~Appended

GetPreviousFeatureEntryFailed ==
    ReporterStepAt("previous") /\ repRes'.err /\ repRes'.previous = Nil

StatusUpdateFailed == ReporterStepAt("tweet") /\ tweets' = tweets

(* the web fetcher goes on with the feature after the head *)
FetcherMovedOn ==
    /\ fetchQueue' = Tail(fetchQueue)
    /\ fetchPc' = IF Tail(fetchQueue) = <<>> THEN "select" ELSE "get"

(* C13: a failing GetLastIfDiffers or CreateEntry, GetPreviousFeatureEntry *)
(* or Statuses.Update costs the item at hand its turn and nothing else:    *)
(* the store, the tweets and the messages stay as they are, the loop goes  *)
(* on with the next item of the batch (or waits for the next tick), and a  *)
(* record whose delivery failed is still undelivered.                      *)
C13_FailureSkipsOneItem ==
    /\ [][(GetLastIfDiffersFailed \/ CreateEntryFailed) =>
            /\ store' = store /\ tweets' = tweets /\ dms' = dms
            /\ FetcherMovedOn]_vars
    /\ [][(GetPreviousFeatureEntryFailed \/ StatusUpdateFailed) =>
            /\ store' = store /\ tweets' = tweets /\ dms' = dms
            /\ MovedOn
            /\ \E i \in 1..Len(Undelivered(store')) :
                    Key(Undelivered(store')[i]) = Key(Head(repQueue))]_vars
    /\ [](fetchPc \in {"select", "get", "create"})
    /\ [](InRecordLoop \/ repPc \in {"select", "safeModeMessage", "returned"})

C13_Witness ==
    /\ fetchPc = "get" /\ fetchRes.err /\ Len(fetchQueue) = 1
    /\ repPc = "previous" /\ repRes.err /\ repRes.previous = Nil
    /\ Len(repQueue) = 1
    /\ Len(store) = 2

-----------------------------------------------------------------------------
(* The tweet reporter and an empty report, checked under SpecDelivery *)

EmptyReportReturned ==
    /\ ReporterStepAt("previous")
    /\ ~repRes'.err
    /\ repRes'.twitterReport = ""

(* C14: an empty text with no error is no classification failure and is    *)
(* not posted: unless the run is a dry run, the tweet reporter goes        *)
(* straight to SetTwitterReported for the record, which sets               *)
(* reported_to_twitter and leaves reported_broken alone; no tweet and no   *)
(* message is sent.                                                        *)
C14_EmptyReportMarkedDelivered ==
    /\ [][EmptyReportReturned =>
            /\ store' = store /\ tweets' = tweets /\ dms' = dms
            /\ IF cfg.DryReporting /\ ~cfg.SupressReporting
               THEN MovedOn
               ELSE repPc' = "setReported" /\ repQueue' = repQueue]_vars
    /\ [][ReporterStepAt("setReported") =>
            /\ tweets' = tweets /\ dms' = dms
            /\ MovedOn
            /\ \/ store' = store
               \/ store' = [i \in 1..Len(store) |->
                              IF Key(store[i]) = Key(Head(repQueue))
                              THEN [store[i] EXCEPT !.ReportedToTwitter = TRUE]
                              ELSE store[i]]]_vars

C14_Witness ==
    /\ ~cfg.DryReporting /\ ~cfg.SupressReporting
    /\ \E r \in Rows(store) :
            /\ r.ReportedToTwitter /\ ~r.ReportedBroken
            /\ CopiesIn(Key(r), tweets) = 0
    /\ dms = EmptyBag
    /\ tweets = EmptyBag

-----------------------------------------------------------------------------
(* The rendered text, checked under SpecReport *)

TextOrEmpty(text) == IF text.Valid THEN text.String ELSE ""

VersionText(f, v) ==
    LET display == TextOrEmpty(DisplayTextOf(f, v))
        extra == TextOrEmpty(ExtraTextOf(f, v))
    IN  IF extra = "" THEN display ELSE display \o "(" \o extra \o ")"

(* the line of vendor v in a listing of snapshot f *)
VendorLine(f, v) ==
    v \o " - " \o
        (CASE SupportOf(f, v) = SupportNo -> "[no]"
           [] SupportOf(f, v) = SupportYes -> "[yes] " \o VersionText(f, v)
           [] SupportOf(f, v) = SupportPartial ->
                "[partial] " \o VersionText(f, v))

VendorOrder == <<"GCC", "Clang", "MSVC">>

(* one line for each vendor of vs, in the fixed order *)
Block(f, vs) ==
    LET l == SelectSeq(VendorOrder, LAMBDA v : v \in vs)
    IN  CASE Len(l) = 0 -> ""
          [] Len(l) = 1 -> VendorLine(f, l[1])
          [] Len(l) = 2 -> VendorLine(f, l[1]) \o "\n" \o VendorLine(f, l[2])
          [] Len(l) = 3 -> VendorLine(f, l[1]) \o "\n" \o VendorLine(f, l[2])
                           \o "\n" \o VendorLine(f, l[3])

Heading(tag) ==
    tag \o " C++" \o ToString(Deref(next).CppVersion)
        \o " - \"" \o Deref(next).Name \o "\"."

Comparison(vs) ==
    "\n\nFrom:\n" \o Block(Deref(previous), vs)
        \o "\n\nto:\n" \o Block(Deref(next), vs)

(* C15: the text of a support update or a text update is the heading, a    *)
(* From block with one line from previous for each vendor of the           *)
(* changed-set and a to block with one line from next for each of them,    *)
(* in the order GCC, Clang, MSVC, and no line for any other vendor.        *)
C15_FromToBlocks ==
    (Reported /\ previous # Nil /\ ~out.report.err) =>
        /\ out.report.reportText =
                IF SupportChanged # {}
                THEN Heading("[Support Update]") \o Comparison(SupportChanged)
                ELSE Heading("[Text Update]") \o Comparison(TextChanged)
        /\ Len(out.report.reportText) <= TrimLimit =>
                out.report.text = out.report.reportText

C15_Witness ==
    /\ Reported /\ previous # Nil
    /\ SupportOf(Deref(previous), "GCC") = SupportNo
    /\ SupportChanged = {"GCC"}
    /\ out.report.text =
          "[Support Update] C++17 - \"X\".\n\nFrom:\nGCC - [no]\n\nto:\nGCC - [yes] 9(still buggy)"

(* C16: the text of a new listing is the heading and, under "Support:",    *)
(* three lines, for GCC, Clang and MSVC in this order, whatever their      *)
(* support levels; a vendor without support has its line, showing [no].    *)
C16_NewListingThreeLines ==
    (Reported /\ previous = Nil) =>
        /\ ~out.report.err
        /\ out.report.reportText =
                Heading("[New Listing]") \o "\n\nSupport:\n"
                    \o VendorLine(Deref(next), "GCC") \o "\n"
                    \o VendorLine(Deref(next), "Clang") \o "\n"
                    \o VendorLine(Deref(next), "MSVC")
        /\ Len(out.report.reportText) <= TrimLimit =>
                out.report.text = out.report.reportText

C16_Witness ==
    /\ Reported /\ previous = Nil
    /\ \A v \in Vendors : SupportOf(Deref(next), v) = SupportNo
    /\ out.report.text =
          "[New Listing] C++17 - \"X\".\n\nSupport:\nGCC - [no]\nClang - [no]\nMSVC - [no]"

TextUpdateReported ==
    Reported /\ previous # Nil /\ SupportChanged = {} /\ TextChanged # {}

(* C17 as stated: the header of a text update has a singular form, used    *)
(* when exactly one vendor is in the changed-set, and another, plural form *)
(* used when two or more are.                                              *)
C17_SingularAndPluralHeader ==
    TextUpdateReported =>
        (HasPrefix(out.report.text, Heading("[Text Update]") \o "\n")
            <=> Cardinality(TextChanged) = 1)

(* C17 amended: the header of a text update is the same for one vendor in  *)
(* the changed-set and for several: "[Text Update]", the C++ version and   *)
(* the feature name; the number of vendors shows in the lines of the From  *)
(* and to blocks only.                                                     *)
C17_OneTextUpdateHeader ==
    TextUpdateReported =>
        /\ ~out.report.err
        /\ HasPrefix(out.report.text,
                     Heading("[Text Update]") \o "\n\nFrom:\n")

C17_Witness ==
    /\ TextUpdateReported
    /\ Cardinality(TextChanged) = 3
    /\ HasPrefix(out.report.text, "[Text Update] C++17 - \"X\".\n\nFrom:\nGCC - ")

(* the vendors of the text changed-set whose displayText and extraText are *)
(* empty in previous and in next                                           *)
EmptyOnBothSides ==
    {v \in TextChanged : /\ VersionText(Deref(previous), v) = ""
                          /\ VersionText(Deref(next), v) = ""}

(* C18 as stated: a text update has no comparison line for a vendor whose  *)
(* texts are empty on both sides, also when it is in the changed-set       *)
(* because one side is NULL and the other the empty string.                *)
C18_EmptyTextVendorHasNoLine ==
    TextUpdateReported =>
        out.report.reportText =
            Heading("[Text Update]")
                \o Comparison(TextChanged \ EmptyOnBothSides)

(* C18 amended: a vendor that is in the text changed-set only because one  *)
(* side is NULL and the other the empty string has its From line and its   *)
(* to line like any vendor of the changed-set; the two lines are equal and *)
(* show the support level with an empty version text.                      *)
C18_EmptyTextVendorHasItsLines ==
    (TextUpdateReported /\ EmptyOnBothSides # {}) =>
        /\ EmptyOnBothSides \subseteq Listed(out.report)
        /\ out.report.reportText =
                Heading("[Text Update]") \o Comparison(TextChanged)
        /\ \A v \in EmptyOnBothSides :
                VendorLine(Deref(previous), v) = VendorLine(Deref(next), v)

C18_Witness ==
    /\ TextUpdateReported
    /\ EmptyOnBothSides = {"GCC"}
    /\ TextChanged = {"GCC"}
    /\ out.report.text =
          "[Text Update] C++17 - \"X\".\n\nFrom:\nGCC - [no]\n\nto:\nGCC - [no]"

-----------------------------------------------------------------------------
(* Suppressed reporting, checked under SpecNotify *)

(* C20: with SupressReporting set nothing is sent, neither a tweet nor a   *)
(* message to the maintainer, and every undelivered record a tick looks at *)
(* (its GetPreviousFeatureEntry succeeding) goes to SetTwitterReported.    *)
C20_SuppressedMarksAllSendsNothing ==
    /\ [](cfg.SupressReporting => tweets = EmptyBag /\ dms = EmptyBag)
    /\ [][(cfg.SupressReporting /\ ReporterStepAt("select")) =>
            (repQueue' = Undelivered(store) /\ repPc' # "safeModeMessage")]_vars
    /\ [][(cfg.SupressReporting /\ ReporterStepAt("previous")
              /\ ~(repRes'.err /\ repRes'.previous = Nil)) =>
            repPc' = "setReported"]_vars

-----------------------------------------------------------------------------
(* Shutdown, checked under SpecQuit *)

FetcherInTick == fetchPc \in {"get", "create"}

ReporterInTick == InRecordLoop \/ repPc = "safeModeMessage"

(* C19: when the process exits after the shutdown signal, no tick is left  *)
(* unfinished: a tick that was in progress when quitChan was closed has    *)
(* run to its end, each store operation it had started included.           *)
C19_TicksFinishBeforeExit ==
    proc = "exited" => ~FetcherInTick /\ ~ReporterInTick

-----------------------------------------------------------------------------
(* Dry reporting, checked under SpecNotify *)

(* a step of the tweet reporter that writes a delivery flag of a row *)
DeliveryStateChanged ==
    \E i \in 1..Len(store) :
        \/ store'[i].ReportedToTwitter # store[i].ReportedToTwitter
        \/ store'[i].ReportedBroken # store[i].ReportedBroken

C21_DryNeverTweets == cfg.DryReporting => tweets = EmptyBag

(* C21: with DryReporting set, whatever the other flags are, no tweet is   *)
(* ever sent and no step of the tweet reporter changes the delivery state  *)
(* of a stored record.                                                     *)
C21_DryOnlyPrints ==
    /\ []C21_DryNeverTweets
    /\ [][cfg.DryReporting => ~DeliveryStateChanged /\ store' = store]_vars

-----------------------------------------------------------------------------
(* The form of a vendor line, checked under SpecReport *)

LevelName(support) ==
    CASE support = SupportNo -> "no"
      [] support = SupportYes -> "yes"
      [] support = SupportPartial -> "partial"

(* "<vendor> - [<level>] <versionText>": the version text shown at every  *)
(* level (atNone), or at the levels yes and partial only; nothing follows  *)
(* the bracket when there is no text to show                               *)
LineOfForm(f, v, atNone) ==
    v \o " - [" \o LevelName(SupportOf(f, v)) \o "]"
        \o (IF atNone
            THEN IF VersionText(f, v) = "" THEN "" ELSE " " \o VersionText(f, v)
            ELSE IF SupportOf(f, v) = SupportNo THEN ""
                 ELSE " " \o VersionText(f, v))

Join3(a, b, c) ==
    LET l == SelectSeq(<<a, b, c>>, LAMBDA x : x # "")
    IN  CASE Len(l) = 0 -> ""
          [] Len(l) = 1 -> l[1]
          [] Len(l) = 2 -> l[1] \o "\n" \o l[2]
          [] Len(l) = 3 -> l[1] \o "\n" \o l[2] \o "\n" \o l[3]

(* the report that has a line of that form for each vendor it lists *)
ReportOfLines(atNone) ==
    LET lines(f, vs) ==
            Join3(IF "GCC" \in vs THEN LineOfForm(f, "GCC", atNone) ELSE "",
                  IF "Clang" \in vs THEN LineOfForm(f, "Clang", atNone) ELSE "",
                  IF "MSVC" \in vs THEN LineOfForm(f, "MSVC", atNone) ELSE "")
    IN  IF previous = Nil
        THEN Heading("[New Listing]") \o "\n\nSupport:\n"
                \o lines(Deref(next), Vendors)
        ELSE Heading(IF SupportChanged # {} THEN "[Support Update]"
                     ELSE "[Text Update]")
                \o "\n\nFrom:\n" \o lines(Deref(previous), Listed(out.report))
                \o "\n\nto:\n" \o lines(Deref(next), Listed(out.report))

(* C22 as stated: every vendor line of a report is "<vendor> - [<level>]   *)
(* <versionText>", the version text being displayText with "(extraText)"   *)
(* appended when extraText is not empty, at every support level, none with *)
(* a non-empty displayText or extraText included.                          *)
C22_VersionTextAtEveryLevel ==
    (Reported /\ ~out.report.err) =>
        out.report.reportText = ReportOfLines(TRUE)

(* C22 amended: a vendor line is "<vendor> - [yes] <versionText>" or       *)
(* "<vendor> - [partial] <versionText>", the version text being            *)
(* displayText with "(extraText)" appended exactly when extraText is not   *)
(* empty; at the level none the line is "<vendor> - [no]" and shows no     *)
(* version text, whatever displayText and extraText hold.                  *)
C22_VersionTextUnlessNone ==
    (Reported /\ ~out.report.err) =>
        out.report.reportText = ReportOfLines(FALSE)

C22_Witness ==
    /\ Reported /\ previous = Nil
    /\ SupportOf(Deref(next), "GCC") = SupportNo
    /\ VersionText(Deref(next), "GCC") = "9(planned)"
    /\ SupportOf(Deref(next), "Clang") = SupportYes
    /\ out.report.text =
          "[New Listing] C++17 - \"X\".\n\nSupport:\nGCC - [no]\nClang - [yes] 9(still buggy)\nMSVC - [partial] 9"

-----------------------------------------------------------------------------
(* Snapshots are immutable, checked under Spec *)

DataFields == MeaningfulFields \cup {"Timestamp"}

(* the features a caller may hand to CreateEntry: a scraped feature with   *)
(* any delivery flags                                                      *)
Candidates ==
    {[f EXCEPT !.ReportedToTwitter = a, !.ReportedBroken = b] :
        f \in SiteFeatures, a \in BOOLEAN, b \in BOOLEAN}

(* table t is table s with one more row at its end, a not-attempted        *)
(* snapshot of f                                                           *)
OneRowAppended(s, t, f) ==
    /\ Len(t) = Len(s) + 1
    /\ \A i \in 1..Len(s) : t[i] = s[i]
    /\ ~DiffersOn(t[Len(t)], f, MeaningfulFields)
    /\ ~t[Len(t)].ReportedToTwitter
    /\ ~t[Len(t)].ReportedBroken

CreateEntryOnlyAppends ==
    \A f \in Candidates : OneRowAppended(store, CreateEntry(store, f, now + 1), f)

(* no row is removed and no row's data fields change *)
RowsKept ==
    /\ Len(store') >= Len(store)
    /\ \A i \in 1..Len(store) : ~DiffersOn(store'[i], store[i], DataFields)

(* C23: CreateEntry only appends: the table it leaves is the table it      *)
(* found, every row with its data fields and flags as before, and one more *)
(* row with both delivery flags false, whatever flags the caller passed.   *)
(* No step of the web fetcher or the tweet reporter removes a row or       *)
(* changes the data fields of a stored row, and the web fetcher changes no *)
(* flag.                                                                   *)
C23_SnapshotsImmutable ==
    /\ []CreateEntryOnlyAppends
    /\ [][RowsKept]_vars
    /\ [][Appended =>
            /\ fetchPc = "create"
            /\ OneRowAppended(store, store', Head(fetchQueue))]_vars
    /\ [][fetchVars' # fetchVars => (Appended \/ store' = store)]_vars

C23_Witness ==
    /\ Len(store) = 2
    /\ store[1].Name = store[2].Name
    /\ store[1].ReportedToTwitter
    /\ CopiesIn(Key(store[1]), tweets) = 1
    /\ ~store[2].ReportedToTwitter /\ ~store[2].ReportedBroken
    /\ CopiesIn(Key(store[2]), tweets) = 0
    /\ repPc = "select"
    /\ fetchPc = "select"

-----------------------------------------------------------------------------
(* The predecessor of a snapshot, checked under Spec *)

(* the keys of a set of rows, and of a pointer *)
KeysOf(rows) == {Key(r) : r \in rows}

KeyOfPtr(p) == IF p = Nil THEN {} ELSE {Key(Deref(p))}

(* what is reported for row r of table s: the text and whether it is an    *)
(* error, from r and the snapshot of its name just before it               *)
ReportedFor(s, r) ==
    LET p == Predecessor(s, r)
        report == FeatureToTwitterReport(
                      IF p = {} THEN Nil ELSE Ptr(CHOOSE q \in p : TRUE), Ptr(r))
    IN  <<report.text, report.err>>

(* C24: the snapshot GetPreviousFeatureEntry returns for a stored snapshot *)
(* S when S is reported is the one GetLastIfDiffers returned when the web  *)
(* fetcher decided to store S, or none both times: the row CreateEntry     *)
(* appends has as its predecessor what GetLastIfDiffers returned, the      *)
(* predecessor of a stored row never changes whatever is appended later    *)
(* and however the two loops interleave, the tweet reporter reads exactly  *)
(* that predecessor, and so the text and the category reported for a row   *)
(* never change.                                                           *)
C24_SamePredecessor ==
    /\ [][Appended =>
            KeysOf(Predecessor(store', store'[Len(store')]))
                = KeyOfPtr(fetchRes.lastEntry)]_vars
    /\ [][\A i \in 1..Len(store) :
            /\ KeysOf(Predecessor(store', store'[i]))
                    = KeysOf(Predecessor(store, store[i]))
            /\ ReportedFor(store', store'[i]) = ReportedFor(store, store[i])]_vars
    /\ [][(ReporterStepAt("previous")
              /\ ~(repRes'.err /\ repRes'.previous = Nil)) =>
            /\ KeyOfPtr(repRes'.previous)
                    = KeysOf(Predecessor(store, StoredRow(store, Head(repQueue))))
            /\ <<repRes'.twitterReport, repRes'.err>>
                    = ReportedFor(store, StoredRow(store, Head(repQueue)))]_vars

C24_Witness ==
    /\ Len(store) = 2
    /\ store[1].Name = store[2].Name
    /\ ~store[2].ReportedToTwitter
    /\ Len(repQueue) = 1
    /\ Key(Head(repQueue)) = Key(store[1])
    /\ repPc = "tweet"
    /\ repRes.previous = Nil
    /\ HasPrefix(repRes.twitterReport, "[New Listing]")

-----------------------------------------------------------------------------
(* After the safe mode cap has tripped, checked under SpecSafeMode *)

SafeModeMessage(n) == <<"safemode", n>>

(* the tweet reporter has found too many undelivered records *)
Tripped == repPc \in {"safeModeMessage", "returned"}

(* C25: from the tick that trips the safe mode cap on, whether its message *)
(* to the maintainer is sent or not, the tweet reporter is over: no tweet  *)
(* or message is sent any more, no delivery flag is written, no further    *)
(* tick starts; the web fetcher goes on as before and can append rows.     *)
C25_StoppedForGood ==
    /\ [][ReporterStepAt("safeModeMessage") => repPc' = "returned"]_vars
    /\ [][Tripped =>
            /\ repPc' \in {repPc, "returned"}
            /\ tweets' = tweets
            /\ ~DeliveryStateChanged
            /\ \/ dms' = dms
               \/ /\ repPc = "safeModeMessage"
                  /\ \E n \in 1..Len(store) :
                        dms' = dms (+) SetToBag({SafeModeMessage(n)})]_vars
    /\ [][repPc = "returned" => repVars' = repVars /\ dms' = dms]_vars
    /\ [](repPc = "returned" =>
            /\ fetchPc \in {"select", "get", "create"}
            /\ fetchPc = "select" /\ Len(store) < MaxStore =>
                    ENABLED (FetchTick /\ fetchPc' = "get")
            /\ fetchPc = "get" => ENABLED FetchGetLastIfDiffers
            /\ fetchPc = "create" => ENABLED (FetchCreateEntry /\ Appended))

C25_Witness ==
    /\ repPc = "returned"
    /\ BagToSet(dms) = {SafeModeMessage(1)}
    /\ tweets = EmptyBag
    /\ Len(store) = 2
    /\ \A i \in 1..2 : ~store[i].ReportedToTwitter /\ ~store[i].ReportedBroken

-----------------------------------------------------------------------------
(* How often a snapshot is tweeted, checked under SpecNotify *)

Sent(r) == CopiesIn(Key(r), tweets)

(* a step in which Statuses.Update accepts the report of the head entry *)
TweetAccepted == ReporterStepAt("tweet") /\ tweets' # tweets

(* C26 as stated: over the whole run no snapshot is tweeted more than      *)
(* once, also when SetTwitterReported fails.                               *)
C26_TweetedAtMostOnce == \A r \in Rows(store) : Sent(r) <= 1

(* C26, what holds: a tick tweets a snapshot at most once, only a snapshot *)
(* that is not marked delivered; an accepted tweet is followed by          *)
(* SetTwitterReported for that snapshot, and once the mark is stored no    *)
(* later tick tweets the snapshot again.  When SetTwitterReported fails    *)
(* the snapshot stays undelivered and the next tick tweets it again.       *)
C26_NotTweetedOnceMarked ==
    /\ [][\A r \in Rows(store) :
            r.ReportedToTwitter => CopiesIn(Key(r), tweets') = Sent(r)]_vars
    /\ [][tweets' # tweets =>
            /\ TweetAccepted
            /\ ~StoredRow(store, Head(repQueue)).ReportedToTwitter
            /\ tweets' = tweets (+) SetToBag({Key(Head(repQueue))})
            /\ repPc' = "setReported" /\ repQueue' = repQueue]_vars
    /\ [][ReporterStepAt("setReported") =>
            /\ MovedOn
            /\ \/ store' = store
               \/ StoredRow(store', Head(repQueue)).ReportedToTwitter]_vars
    /\ [](\A i, j \in 1..Len(repQueue) :
            i # j => Key(repQueue[i]) # Key(repQueue[j]))

C26_Witness ==
    /\ Len(store) = 3
    /\ store[1].ReportedToTwitter /\ Sent(store[1]) = 1
    /\ ~store[2].ReportedToTwitter /\ Sent(store[2]) = 2
    /\ repPc = "previous"
    /\ Key(Head(repQueue)) = Key(store[3])

-----------------------------------------------------------------------------
(* Every snapshot settles, checked under SpecLive *)

(* the final delivery state of row r of table s *)
Settled(s, r) ==
    IF Unclassified(s, r)
    THEN r.ReportedBroken /\ ~r.ReportedToTwitter
    ELSE r.ReportedToTwitter /\ ~r.ReportedBroken

AllSettled == \A r \in Rows(store) : Settled(store, r)

(* C27: with DryReporting off, ticks that keep coming and calls that from  *)
(* some time on succeed, unless the safe mode cap trips, every stored      *)
(* snapshot ends up settled for good: marked delivered when it is a new    *)
(* listing, a support update or a text update, marked failed-and-reported  *)
(* when it is unclassified.                                                *)
C27_EverySnapshotSettles ==
    ([]~Tripped) => <>[]AllSettled

C27_Witness ==
    /\ Len(store) = 3
    /\ AllSettled
    /\ Unclassified(store, store[2])
    /\ CopiesIn(BrokenMessage(store[2]), dms) = 1
    /\ ~cfg.SupressReporting
    /\ Sent(store[1]) = 1 /\ Sent(store[3]) = 1

-----------------------------------------------------------------------------
(* Ingesting an unchanged page twice, checked under SpecIngest *)

InSecondTick == out.ticks = 2

(* C28: whatever rows the scraper yields, when a tick has worked through   *)
(* them and the next tick gets the same rows, that second tick appends no  *)
(* snapshot.                                                               *)
C28_SecondTickAppendsNothing ==
    [][InSecondTick => store' = store]_vars

-----------------------------------------------------------------------------
(* What the safe mode check counts, checked under SpecResume *)

(* the records of table s in the not-attempted state *)
NotAttempted(s) ==
    SelectSeq(s, LAMBDA r : ~r.ReportedToTwitter /\ ~r.ReportedBroken)

C29_NotEscalatedAgain ==
    ReporterStepAt("errorMessage") =>
        ~StoredRow(store, Head(repQueue)).ReportedBroken

(* C29: a record marked failed-and-reported gets no further escalation     *)
(* message, and the safe mode check leaves it out: a tick goes for the     *)
(* safe mode message exactly when the records still not attempted are more *)
(* than SafeModeMaxReports.                                                *)
C29_CountsNotAttemptedOnly ==
    /\ [][C29_NotEscalatedAgain]_vars
    /\ [][ReporterStepAt("select") =>
            (repPc' = "safeModeMessage"
                <=> (cfg.SafeMode
                     /\ Len(NotAttempted(store)) > cfg.SafeModeMaxReports))]_vars

-----------------------------------------------------------------------------
(* Repeated interrupts, checked under SpecQuit *)

(* C30: quitChan is closed at most once: however many interrupts arrive    *)
(* and whenever rootCmdFunc returns, the goroutine ranging over ctrlCChan  *)
(* never calls close on the closed quitChan, so the process never panics.  *)
C30_QuitChanClosedOnce == proc # "panicked"

====
